---- MODULE Spec2Model ----
(***************************************************************************)
(* A model of package pqtest (src/pqtest.go): Open provisions a fresh      *)
(* PostgreSQL database per call, applies schema files to it, and, as a     *)
(* side effect of every call, garbage-collects old pqtest databases with   *)
(* fire-and-forget DROP DATABASE goroutines.                               *)
(*                                                                         *)
(* Strings (database names, file paths) are sequences of byte values, so   *)
(* that the comparisons the code and the server make (Go's and SQL's       *)
(* byte-wise "<", LIKE, TrimSuffix, Ext) are computed, not assumed.  File  *)
(* contents are opaque texts and are written as TLA+ strings.  Time is in  *)
(* whole seconds since the Unix epoch.                                     *)
(***************************************************************************)
EXTENDS Integers, Sequences, FiniteSets, TLC

\* ------------------------------------------------------------------------
\* Bounds of the model
\* ------------------------------------------------------------------------

\* The clock at the start of a run: 2006-01-02 23:59:00 UTC, so that a
\* retention window crosses a minute, an hour, a day boundary.
T0 == 1136246340

\* Number of concurrent callers of Open.
NumCallers == 2

\* The clock advances at most this many times in a run.
MaxTicks == 2

\* The random source yields the tokens of seeds 0..MaxSeed.
MaxSeed == 1

\* The server starts with 0..MaxStale ephemeral databases left by earlier runs.
MaxStale == 7

\* A caller calls Open again only while at most this many goroutines of its
\* earlier calls have not ended.
MaxPending == 0

\* ------------------------------------------------------------------------
\* Byte strings
\* ------------------------------------------------------------------------

\* Go's and PostgreSQL's (type name, C collation) byte-wise string order.
StrLess(a, b) ==
    LET n == IF Len(a) < Len(b) THEN Len(a) ELSE Len(b)
        D == {i \in 1..n : a[i] # b[i]}
    IN  IF D = {} THEN Len(a) < Len(b)
        ELSE LET k == CHOOSE i \in D : \A j \in D : i <= j
             IN  a[k] < b[k]

HasPrefix(s, p) == Len(s) >= Len(p) /\ SubSeq(s, 1, Len(p)) = p

HasSuffix(s, p) == Len(s) >= Len(p) /\ SubSeq(s, Len(s) - Len(p) + 1, Len(s)) = p

\* strings.TrimSuffix
TrimSuffix(s, p) == IF HasSuffix(s, p) THEN SubSeq(s, 1, Len(s) - Len(p)) ELSE s

\* Index of the last byte of s equal to b, 0 when there is none.
LastIndex(s, b) ==
    LET I == {i \in 1..Len(s) : s[i] = b}
    IN  IF I = {} THEN 0 ELSE CHOOSE i \in I : \A j \in I : j <= i

\* filepath.Base: the last element of the path, trailing slashes removed;
\* "." for the empty path, "/" for a path of slashes only.
RECURSIVE StripSlashes(_)
StripSlashes(p) ==
    IF p # <<>> /\ p[Len(p)] = 47 THEN StripSlashes(SubSeq(p, 1, Len(p) - 1)) ELSE p

Base(path) ==
    IF path = <<>> THEN <<46>>
    ELSE LET p == StripSlashes(path)
         IN  IF p = <<>> THEN <<47>>
             ELSE SubSeq(p, LastIndex(p, 47) + 1, Len(p))

\* filepath.Ext: the suffix beginning at the final dot in the final element
\* of the path, empty when there is no dot.
Ext(path) ==
    LET dot   == LastIndex(path, 46)
        slash == LastIndex(path, 47)
    IN  IF dot > slash THEN SubSeq(path, dot, Len(path)) ELSE <<>>

\* filepath.Join of a directory and a name
Join(dir, nm) == dir \o <<47>> \o nm

\* ------------------------------------------------------------------------
\* Database names
\* ------------------------------------------------------------------------

\* The decimal digits of n, zero-padded to width w (bytes '0'..'9').
\* A format without zero padding ("2006-1-2 15:4:5" style fields).
RECURSIVE DigitsUnpadded(_, _)
DigitsUnpadded(n, w) ==
    IF n < 10 THEN <<48 + n>> ELSE DigitsUnpadded(n \div 10, w) \o <<48 + (n % 10)>>

RECURSIVE Digits(_, _)
Digits(n, w) == IF w = 0 THEN <<>> ELSE Digits(n \div 10, w - 1) \o <<48 + (n % 10)>>

\* t.UTC().Format(timeFormat) with timeFormat = "20060102150405": year,
\* month, day, hour, minute, second of Unix time t in UTC, each zero-padded.
timeFormat(t) ==
    LET days == t \div 86400
        secs == t % 86400
        z    == days + 719468
        era  == z \div 146097
        doe  == z - era * 146097
        yoe  == (doe - doe \div 1460 + doe \div 36524 - doe \div 146096) \div 365
        doy  == doe - (365 * yoe + yoe \div 4 - yoe \div 100)
        mp   == (5 * doy + 2) \div 153
        d    == doy - (153 * mp + 2) \div 5 + 1
        m    == IF mp < 10 THEN mp + 3 ELSE mp - 9
        y    == yoe + era * 400 + (IF m <= 2 THEN 1 ELSE 0)
    IN  Digits(y, 4) \o Digits(m, 2) \o Digits(d, 2)
        \o Digits(secs \div 3600, 2) \o Digits((secs % 3600) \div 60, 2)
        \o Digits(secs % 60, 2)

\* "pqtest_" + t.UTC().Format(timeFormat) + "Z_" + suffix
formatDBName(suffix, t) ==
    <<112, 113, 116, 101, 115, 116, 95>> \o timeFormat(t) \o <<90, 95>> \o suffix

\* const chars = "abcdefghijklmnopqrstuvwxyz"
chars == [i \in 1..26 |-> 96 + i]

\* The ten draws random.Intn(len(chars)) of one call, for a state of the
\* random source named by seed: seed 0 draws "aaaaaaaaaa", seed 1
\* "hijklmnopq", seed 2 "oqsuwyaceg", ...
Intn(seed, i) == (seed * (7 + i)) % 26

randomToken(seed) == [i \in 1..10 |-> chars[Intn(seed, i - 1) + 1]]

\* randomDBName(file) at time t with the random source in state seed.
randomDBName(file, seed, t) ==
    LET s          == randomToken(seed)
        withoutExt == TrimSuffix(Base(file), <<46, 103, 111>>)
        suffix     == IF withoutExt # <<>> THEN s \o <<95>> \o withoutExt ELSE s
    IN  formatDBName(suffix, t)

\* ------------------------------------------------------------------------
\* The file system the schema options read
\* ------------------------------------------------------------------------

\* f/                 m/                      s.sql   "S0"
\*   0002_b.sql "B"     0001_a.sql "A"        bad.sql "BAD" (invalid SQL)
\*   0001_a.sql "A"     a/x.sql    "X"
\*                      a.sql      "S"
\*                      d.sql/     (a directory)
\*                      notes.txt  "N"
\* n/                 p/                      e/  (empty)
\*   1.sql      "N1"    a/1.sql    "P1"
\*   sub/2.sql  "N2"    a-b/2.sql  "P2"
\*   sub/deep/3.sql "N3"
\*   z.sql      "N4"
\* Each entry: its path, whether it is a directory, and a file's content.
FileSystem ==
    { [path |-> <<102>>, dir |-> TRUE, text |-> ""],
      [path |-> <<102, 47, 48, 48, 48, 50, 95, 98, 46, 115, 113, 108>>, dir |-> FALSE, text |-> "B"],
      [path |-> <<102, 47, 48, 48, 48, 49, 95, 97, 46, 115, 113, 108>>, dir |-> FALSE, text |-> "A"],
      [path |-> <<109>>, dir |-> TRUE, text |-> ""],
      [path |-> <<109, 47, 48, 48, 48, 49, 95, 97, 46, 115, 113, 108>>, dir |-> FALSE, text |-> "A"],
      [path |-> <<109, 47, 97>>, dir |-> TRUE, text |-> ""],
      [path |-> <<109, 47, 97, 47, 120, 46, 115, 113, 108>>, dir |-> FALSE, text |-> "X"],
      [path |-> <<109, 47, 97, 46, 115, 113, 108>>, dir |-> FALSE, text |-> "S"],
      [path |-> <<109, 47, 100, 46, 115, 113, 108>>, dir |-> TRUE, text |-> ""],
      [path |-> <<109, 47, 110, 111, 116, 101, 115, 46, 116, 120, 116>>, dir |-> FALSE, text |-> "N"],
      [path |-> <<115, 46, 115, 113, 108>>, dir |-> FALSE, text |-> "S0"],
      [path |-> <<98, 97, 100, 46, 115, 113, 108>>, dir |-> FALSE, text |-> "BAD"],
      [path |-> <<110>>, dir |-> TRUE, text |-> ""],
      [path |-> <<110, 47, 49, 46, 115, 113, 108>>, dir |-> FALSE, text |-> "N1"],
      [path |-> <<110, 47, 115, 117, 98>>, dir |-> TRUE, text |-> ""],
      [path |-> <<110, 47, 115, 117, 98, 47, 50, 46, 115, 113, 108>>, dir |-> FALSE, text |-> "N2"],
      [path |-> <<110, 47, 115, 117, 98, 47, 100, 101, 101, 112>>, dir |-> TRUE, text |-> ""],
      [path |-> <<110, 47, 115, 117, 98, 47, 100, 101, 101, 112, 47, 51, 46, 115, 113, 108>>, dir |-> FALSE, text |-> "N3"],
      [path |-> <<110, 47, 122, 46, 115, 113, 108>>, dir |-> FALSE, text |-> "N4"],
      [path |-> <<112>>, dir |-> TRUE, text |-> ""],
      [path |-> <<112, 47, 97>>, dir |-> TRUE, text |-> ""],
      [path |-> <<112, 47, 97, 47, 49, 46, 115, 113, 108>>, dir |-> FALSE, text |-> "P1"],
      [path |-> <<112, 47, 97, 45, 98>>, dir |-> TRUE, text |-> ""],
      [path |-> <<112, 47, 97, 45, 98, 47, 50, 46, 115, 113, 108>>, dir |-> FALSE, text |-> "P2"],
      [path |-> <<101>>, dir |-> TRUE, text |-> ""] }

Exists(path) == \E e \in FileSystem : e.path = path

Entry(path) == CHOOSE e \in FileSystem : e.path = path

IsDir(path) == Exists(path) /\ Entry(path).dir

\* The names in directory dir (os.File.Readdirnames).
DirNames(dir) ==
    { SubSeq(e.path, Len(dir) + 2, Len(e.path)) :
        e \in { x \in FileSystem : /\ HasPrefix(x.path, dir \o <<47>>)
                                   /\ LastIndex(x.path, 47) = Len(dir) + 1 } }

\* A walk that takes a directory's names as the file system enumerates them,
\* unsorted: here the reverse of byte order.
RECURSIVE EnumerationOrder(_)
EnumerationOrder(S) ==
    IF S = {} THEN <<>>
    ELSE LET hi == CHOOSE x \in S : \A y \in S : x = y \/ StrLess(y, x)
         IN  <<hi>> \o EnumerationOrder(S \ {hi})

\* sort.Strings: the strings of set S in ascending byte order.
RECURSIVE SortStrings(_)
SortStrings(S) ==
    IF S = {} THEN <<>>
    ELSE LET lo == CHOOSE x \in S : \A y \in S : x = y \/ StrLess(x, y)
         IN  <<lo>> \o SortStrings(S \ {lo})

\* filepath.Walk's visiting order below an existing root: the path itself,
\* then, for a directory, each of its names in sorted order, walked in turn.
RECURSIVE walk(_)
RECURSIVE walkNames(_, _)
walk(path) ==
    IF IsDir(path) THEN <<path>> \o walkNames(path, SortStrings(DirNames(path)))
    ELSE <<path>>
walkNames(dir, names) ==
    IF names = <<>> THEN <<>>
    ELSE walk(Join(dir, Head(names))) \o walkNames(dir, Tail(names))

\* The walk function of Migrations on each visited path, in visiting order:
\* a path is appended unless its extension is not ".sql" or it is a directory.
RECURSIVE walkFn(_)
walkFn(visited) ==
    IF visited = <<>> THEN <<>>
    ELSE LET path == Head(visited)
         IN  (IF Ext(path) # <<46, 115, 113, 108>> \/ IsDir(path) THEN <<>> ELSE <<path>>)
             \o walkFn(Tail(visited))

\* The option constructors.
SchemaFile(filePath) == [path |-> filePath, kind |-> "SchemaFile"]

Migrations(dir) == [path |-> dir, kind |-> "Migrations"]

\* opt.apply(f, &data) for one option on data.schemaPaths: the paths after
\* it, and whether it called f.Fatal (Walk's error for a root that Lstat
\* cannot find).
apply(opt, schemaPaths) ==
    IF opt.kind = "SchemaFile"
    THEN [fatal |-> FALSE, schemaPaths |-> Append(schemaPaths, opt.path)]
    ELSE IF ~Exists(opt.path)
    THEN [fatal |-> TRUE, schemaPaths |-> schemaPaths]
    ELSE [fatal |-> FALSE, schemaPaths |-> schemaPaths \o walkFn(walk(opt.path))]

\* for _, opt := range opts { opt.apply(f, &data) }: f.Fatal does not return,
\* so the loop ends at the first option that calls it.
RECURSIVE applyAll(_, _)
applyAll(opts, schemaPaths) ==
    IF opts = <<>> THEN [fatal |-> FALSE, schemaPaths |-> schemaPaths]
    ELSE LET r == apply(Head(opts), schemaPaths)
         IN  IF r.fatal THEN r ELSE applyAll(Tail(opts), r.schemaPaths)

\* ioutil.ReadFile fails on a missing path and on a directory.
ReadFails(sp) == ~Exists(sp) \/ IsDir(sp)

\* A loop that skips a file it cannot read and goes on with the next.
RECURSIVE readAllSkipping(_, _)
readAllSkipping(schemaPaths, schema) ==
    IF schemaPaths = <<>> THEN [fatal |-> FALSE, schema |-> schema]
    ELSE IF ReadFails(Head(schemaPaths)) THEN readAllSkipping(Tail(schemaPaths), schema)
    ELSE readAllSkipping(Tail(schemaPaths), Append(schema, Entry(Head(schemaPaths)).text))

\* for _, sp := range data.schemaPaths { read sp, append to data.schema }.
RECURSIVE readAll(_, _)
readAll(schemaPaths, schema) ==
    IF schemaPaths = <<>> THEN [fatal |-> FALSE, schema |-> schema]
    ELSE IF ReadFails(Head(schemaPaths)) THEN [fatal |-> TRUE, schema |-> schema]
    ELSE readAll(Tail(schemaPaths), Append(schema, Entry(Head(schemaPaths)).text))

\* Lines 82-95 of Open: the schema texts resolved from the options, or fatal.
resolve(opts) ==
    LET a == applyAll(opts, <<>>)
    IN  IF a.fatal THEN [fatal |-> TRUE, schema |-> <<>>]
        ELSE readAll(a.schemaPaths, <<>>)

\* The option lists callers pass to Open.
OptionChoices ==
    { <<>>,
      <<Migrations(<<102>>), SchemaFile(<<115, 46, 115, 113, 108>>)>>,
      <<SchemaFile(<<115, 46, 115, 113, 108>>), SchemaFile(<<98, 97, 100, 46, 115, 113, 108>>),
        Migrations(<<109>>)>>,
      <<SchemaFile(<<115, 46, 115, 113, 108>>), SchemaFile(<<110, 111, 112, 101, 46, 115, 113, 108>>)>>,
      <<SchemaFile(<<115, 46, 115, 113, 108>>), Migrations(<<120>>)>> }

\* The schema texts the server rejects (invalid SQL).
InvalidSQL == {"BAD"}

\* ------------------------------------------------------------------------
\* Program constants
\* ------------------------------------------------------------------------

\* const gcDur = 3 * time.Minute, in seconds
gcDur == 180

\* if i > 5 { break }: the last index of names for which a drop is dispatched
lastDropIndex == 5

\* ------------------------------------------------------------------------
\* The server, the callers, the clock
\* ------------------------------------------------------------------------

Callers == 1..NumCallers

\* runtime.Caller(2): the source file of the code that called Open.  The
\* first two callers are tests of the same file, t/a.go; later ones of ".go".
CallerFile(c) == IF c <= 2 THEN <<116, 47, 97, 46, 103, 111>> ELSE <<46, 103, 111>>

\* Databases of the server that Open did not create: "postgres" and a user's
\* database "pqtest1".
UserDBs == { <<112, 111, 115, 116, 103, 114, 101, 115>>,
             <<112, 113, 116, 101, 115, 116, 49>> }

\* The i-th ephemeral database left on the server by an earlier run: named
\* by randomDBName i seconds before T0 - gcDur, with the token of seed
\* i % (MaxSeed + 1), from a test of t/a.go.
StaleTime(i) == T0 - gcDur - i

StaleName(i) ==
    randomDBName(<<116, 47, 97, 46, 103, 111>>, i % (MaxSeed + 1), StaleTime(i))

VARIABLES
    now,        \* the clock (time.Now), Unix seconds
    ticks,      \* how many times the clock has advanced
    server,     \* pg_database: records [name, born, by]; by = 0: not made by a caller
    drops,      \* goroutines "go db.Exec(DROP DATABASE name)" that have not ended:
                \* [name, by, db, closed, sent]; db: the *sql.DB (ctldb of one call
                \* of caller by) they run on; closed: it was closed before their
                \* Exec started; sent: their Exec found it open, the statement is
                \* on its way to the server
    pc,         \* per caller: where its call of Open stands
    opts,       \* per caller: the options of its call
    schema,     \* per caller: data.schema
    executed,   \* per caller: the schema texts db.Exec has run successfully, in order
    name,       \* per caller: the name randomDBName returned
    names,      \* per caller: the names in the answer to garbageCollectDBs's query
    gcTime,     \* per caller: garbageCollectDBs's gcTime, while it awaits its query
                \* (0 outside)
    ctl,        \* per caller: the control connection ctldb: "none", "open", "closed"
    err         \* per caller: the error its call met: "nil", "resolve", "gc", "create", "exec"

vars == <<now, ticks, server, drops, pc, opts, schema, executed, name, names, gcTime,
         ctl, err>>

DBNames == {r.name : r \in server}

\* datname LIKE 'pqtest_%': "pqtest", then any one character, then anything.
Like(datname) ==
    /\ Len(datname) >= 7
    /\ SubSeq(datname, 1, 6) = <<112, 113, 116, 101, 115, 116>>

\* The rows of
\*   SELECT datname FROM pg_database WHERE datname LIKE 'pqtest_%' AND datname < $1
\* for the parameter value bound.
Rows(srv, bound) == { r \in srv : Like(r.name) /\ StrLess(r.name, bound) }

\* A query that compares the wrong way round: datname > $1.
EligibleNewer(srv, gcT) ==
    UNION { { r \in srv : Like(r.name) /\ StrLess(bound, r.name) } :
            bound \in {formatDBName(<<100, 98>>, gcT)} }

\* A query whose bound is formatDBName("db", time.Now()): the retention
\* window left out.
EligibleNoWindow(srv, gcT) ==
    UNION { Rows(srv, bound) : bound \in {formatDBName(<<100, 98>>, gcT + gcDur)} }

\* db.Query(q, formatDBName("db", gcTime)) evaluated on the server's
\* databases srv: the parameter is computed once and bound to $1.
Eligible(srv, gcT) ==
    UNION { Rows(srv, bound) : bound \in {formatDBName(<<100, 98>>, gcT)} }

\* A loop that breaks at i > 4, as its comment "drop up to five" says.
DropChoicesUpToFive(nms) ==
    { S \in SUBSET nms :
        Cardinality(S) = IF Cardinality(nms) > lastDropIndex
                         THEN lastDropIndex ELSE Cardinality(nms) }

\* The names the loop "for i, name := range names" dispatches a drop for:
\* those at indexes 0..lastDropIndex.  The query has no ORDER BY, so the
\* rows come in any order: any subset of that size.
DropChoices(nms) ==
    { S \in SUBSET nms :
        Cardinality(S) = IF Cardinality(nms) > lastDropIndex + 1
                         THEN lastDropIndex + 1 ELSE Cardinality(nms) }

\* The state after construction, with the first n stale databases on the server.
InitWith(n) ==
    /\ now = T0
    /\ ticks = 0
    /\ server = { [name |-> u, born |-> 0, by |-> 0] : u \in UserDBs }
                \cup { [name |-> StaleName(i), born |-> StaleTime(i), by |-> 0] : i \in 1..n }
    /\ drops = {}
    /\ pc = [c \in Callers |-> "idle"]
    /\ opts = [c \in Callers |-> <<>>]
    /\ schema = [c \in Callers |-> <<>>]
    /\ executed = [c \in Callers |-> <<>>]
    /\ name = [c \in Callers |-> <<>>]
    /\ names = [c \in Callers |-> {}]
    /\ gcTime = [c \in Callers |-> 0]
    /\ ctl = [c \in Callers |-> "none"]
    /\ err = [c \in Callers |-> "nil"]

Init == InitWith(0)

\* Time passes: by a second, or by a second less than the retention window.
Tick ==
    /\ ticks < MaxTicks
    /\ \E d \in {1, gcDur - 1} : now' = now + d
    /\ ticks' = ticks + 1
    /\ UNCHANGED <<server, drops, pc, opts, schema, executed, name, names, gcTime, ctl, err>>

\* f.Fatal(...) in caller c's call, for the error e: it does not return, the
\* call ends there.
Fatal(c, e) ==
    /\ pc' = [pc EXCEPT ![c] = "failed"]
    /\ err' = [err EXCEPT ![c] = e]

\* Open, lines 82-95: apply the options, read the schema files.
OpenResolve(c, o) ==
    /\ pc[c] = "idle"
    /\ opts' = [opts EXCEPT ![c] = o]
    /\ LET r == resolve(o)
       IN  IF r.fatal
           THEN /\ Fatal(c, "resolve")
                /\ UNCHANGED schema
           ELSE /\ pc' = [pc EXCEPT ![c] = "mkdb"]
                /\ schema' = [schema EXCEPT ![c] = r.schema]
                /\ UNCHANGED err
    /\ UNCHANGED <<now, ticks, server, drops, executed, name, names, gcTime, ctl>>

\* mkdb, lines 116-130: generate the name, open the control connection
\* (sql.Open connects lazily and does not fail for the postgres driver).
mkdbName(c, seed) ==
    /\ pc[c] = "mkdb"
    /\ name' = [name EXCEPT ![c] = randomDBName(CallerFile(c), seed, now)]
    /\ ctl' = [ctl EXCEPT ![c] = "open"]
    /\ pc' = [pc EXCEPT ![c] = "gc"]
    /\ UNCHANGED <<now, ticks, server, drops, opts, schema, executed, names, gcTime, err>>

\* The *sql.DB of caller c's call, as its goroutines hold it: a handle that
\* no goroutine of an earlier call of c still holds (each call of mkdb makes
\* a new *sql.DB, line 126).
ctldb(c) ==
    CHOOSE h \in 1..(Cardinality(drops) + 1) :
        /\ \A d \in drops : d.by = c => d.db # h
        /\ \A g \in 1..(h - 1) : \E d \in drops : d.by = c /\ d.db = g

\* The goroutines a pass of caller c starts for the names sel, each holding
\* the call's db.
goDrop(c, sel) ==
    { [name |-> n, by |-> c, db |-> h, closed |-> FALSE, sent |-> FALSE] :
          n \in sel, h \in {ctldb(c)} }

\* garbageCollectDBs, line 162: gcTime := time.Now().Add(-gcDur).  The query
\* is sent afterwards; the clock and the server may change in between.
gcTimeRead(c) ==
    /\ pc[c] = "gc"
    /\ gcTime' = [gcTime EXCEPT ![c] = now - gcDur]
    /\ pc' = [pc EXCEPT ![c] = "query"]
    /\ UNCHANGED <<now, ticks, server, drops, opts, schema, executed, name, names, ctl, err>>

\* garbageCollectDBs, line 167, db.Query succeeding: the server evaluates
\* the query, with the bound computed from gcTime, on the databases it holds
\* then; its answer is on its way to the caller.  The server may change
\* before the caller has read the rows and acts on them.
gcQuery(c) ==
    /\ pc[c] = "query"
    /\ names' = [names EXCEPT ![c] = {r.name : r \in Eligible(server, gcTime[c])}]
    /\ gcTime' = [gcTime EXCEPT ![c] = 0]
    /\ pc' = [pc EXCEPT ![c] = "rows"]
    /\ UNCHANGED <<now, ticks, server, drops, opts, schema, executed, name, ctl, err>>

\* garbageCollectDBs, lines 171-189, succeeding: the rows are read into
\* names, then one goroutine is started per name at indexes 0..lastDropIndex
\* (sel), whether or not the database is still on the server.
garbageCollectDBs(c, sel) ==
    /\ pc[c] = "rows"
    /\ sel \in DropChoices(names[c])
    /\ drops' = drops \cup goDrop(c, sel)
    /\ pc' = [pc EXCEPT ![c] = "create"]
    /\ UNCHANGED <<now, ticks, server, opts, schema, executed, name, names, gcTime,
                   ctl, err>>

\* An mkdb that does not check garbageCollectDBs's error and goes on to
\* CREATE DATABASE.
garbageCollectFailUnchecked(c) ==
    /\ pc[c] \in {"query", "rows"}
    /\ err' = [err EXCEPT ![c] = "gc"]
    /\ gcTime' = [gcTime EXCEPT ![c] = 0]
    /\ names' = [names EXCEPT ![c] = {}]
    /\ pc' = [pc EXCEPT ![c] = "create"]
    /\ UNCHANGED <<now, ticks, server, drops, opts, schema, executed, name, ctl>>

\* garbageCollectDBs failing, at db.Query (line 168) or while it reads the
\* answer (rows.Scan, rows.Err, lines 174-181): it returns the error before
\* its drop loop, and mkdb returns it (line 134).
garbageCollectFail(c) ==
    /\ pc[c] \in {"query", "rows"}
    /\ err' = [err EXCEPT ![c] = "gc"]
    /\ gcTime' = [gcTime EXCEPT ![c] = 0]
    /\ names' = [names EXCEPT ![c] = {}]
    /\ pc' = [pc EXCEPT ![c] = "close"]
    /\ UNCHANGED <<now, ticks, server, drops, opts, schema, executed, name, ctl>>

\* Whether CREATE DATABASE nm succeeds: not when a database of that name
\* exists, nor when the server fails for its own reasons (ok = FALSE).
createOK(nm, ok) == ok /\ nm \notin DBNames

\* An mkdb that, when CREATE DATABASE fails, goes back to generate another
\* name and tries again.
mkdbCreateRetrying(c, ok) ==
    /\ pc[c] = "create"
    /\ IF createOK(name[c], ok)
       THEN /\ server' = server \cup {[name |-> name[c], born |-> now, by |-> c]}
            /\ pc' = [pc EXCEPT ![c] = "close"]
       ELSE /\ pc' = [pc EXCEPT ![c] = "mkdb"]
            /\ UNCHANGED server
    /\ names' = [names EXCEPT ![c] = {}]
    /\ UNCHANGED <<now, ticks, drops, opts, schema, executed, name, gcTime, ctl, err>>

\* mkdb, line 137: CREATE DATABASE name; mkdb returns its error.
mkdbCreate(c, ok) ==
    /\ pc[c] = "create"
    /\ IF createOK(name[c], ok)
       THEN /\ server' = server \cup {[name |-> name[c], born |-> now, by |-> c]}
            /\ UNCHANGED err
       ELSE /\ err' = [err EXCEPT ![c] = "create"]
            /\ UNCHANGED server
    /\ names' = [names EXCEPT ![c] = {}]
    /\ pc' = [pc EXCEPT ![c] = "close"]
    /\ UNCHANGED <<now, ticks, drops, opts, schema, executed, name, gcTime, ctl>>

\* ctldb.Close(): a goroutine of caller c whose Exec has not started will
\* find the *sql.DB closed (those of c's earlier calls found theirs closed
\* already); an Exec in flight is neither awaited nor cancelled.
closeDrops(c) ==
    { [d EXCEPT !.closed = d.closed \/ (d.by = c /\ ~d.sent)] : d \in drops }

\* An mkdb that waits for its pass's goroutines before it returns.
mkdbCloseAfterDrops(c) ==
    /\ pc[c] = "close"
    /\ \A d \in drops : d.by # c
    /\ ctl' = [ctl EXCEPT ![c] = "closed"]
    /\ UNCHANGED drops
    /\ IF err[c] # "nil"
       THEN Fatal(c, err[c])
       ELSE /\ pc' = [pc EXCEPT ![c] = "opened"]
            /\ UNCHANGED err
    /\ UNCHANGED <<now, ticks, server, opts, schema, executed, name, names, gcTime>>

\* An mkdb without the deferred ctldb.Close(): it returns with the control
\* connection open.
mkdbReturnUnclosed(c) ==
    /\ pc[c] = "close"
    /\ IF err[c] # "nil"
       THEN Fatal(c, err[c])
       ELSE /\ pc' = [pc EXCEPT ![c] = "opened"]
            /\ UNCHANGED err
    /\ UNCHANGED <<now, ticks, server, drops, opts, schema, executed, name, names, gcTime, ctl>>

\* mkdb returns: the deferred ctldb.Close().  Then Open, lines 98-105:
\* f.Fatal on mkdb's error, else sql.Open of the new database (lazy).
mkdbClose(c) ==
    /\ pc[c] = "close"
    /\ ctl' = [ctl EXCEPT ![c] = "closed"]
    /\ drops' = closeDrops(c)
    /\ IF err[c] # "nil"
       THEN Fatal(c, err[c])
       ELSE /\ pc' = [pc EXCEPT ![c] = "opened"]
            /\ UNCHANGED err
    /\ UNCHANGED <<now, ticks, server, opts, schema, executed, name, names, gcTime>>

\* A loop that runs over data.schema from its end.
nextSchemaBackwards(c) == schema[c][Len(schema[c]) - Len(executed[c])]

\* The schema text the loop of lines 106-111 executes next.
nextSchema(c) == schema[c][Len(executed[c]) + 1]

\* Whether db.Exec of a schema text succeeds: not for invalid SQL, nor when
\* the database no longer exists, nor when the server fails (ok = FALSE).
execOK(c, text, ok) == ok /\ text \notin InvalidSQL /\ name[c] \in DBNames

\* A loop that ignores db.Exec's error: it goes on to the next schema text.
OpenExecIgnoringErr(c, ok) ==
    /\ pc[c] = "opened"
    /\ Len(executed[c]) < Len(schema[c])
    /\ executed' = [executed EXCEPT ![c] = Append(executed[c],
                        IF execOK(c, nextSchema(c), ok) THEN nextSchema(c) ELSE "skipped")]
    /\ UNCHANGED <<pc, err>>
    /\ UNCHANGED <<now, ticks, server, drops, opts, schema, name, names, gcTime, ctl>>

\* Open, lines 106-111: db.Exec of the next schema text, f.Fatal on its error.
OpenExec(c, ok) ==
    /\ pc[c] = "opened"
    /\ Len(executed[c]) < Len(schema[c])
    /\ IF execOK(c, nextSchema(c), ok)
       THEN /\ executed' = [executed EXCEPT ![c] = Append(executed[c], nextSchema(c))]
            /\ UNCHANGED <<pc, err>>
       ELSE /\ Fatal(c, "exec")
            /\ UNCHANGED executed
    /\ UNCHANGED <<now, ticks, server, drops, opts, schema, name, names, gcTime, ctl>>

\* Open, line 112: return db, once the loop is through data.schema.
OpenReturn(c) ==
    /\ pc[c] = "opened"
    /\ Len(executed[c]) = Len(schema[c])
    /\ pc' = [pc EXCEPT ![c] = "returned"]
    /\ UNCHANGED <<now, ticks, server, drops, opts, schema, executed, name, names, gcTime, ctl, err>>

\* The caller calls Open again: a new call starts with fresh locals.
OpenAgain(c) ==
    /\ pc[c] \in {"returned", "failed"}
    /\ Cardinality({d \in drops : d.by = c}) <= MaxPending
    /\ pc' = [pc EXCEPT ![c] = "idle"]
    /\ opts' = [opts EXCEPT ![c] = <<>>]
    /\ schema' = [schema EXCEPT ![c] = <<>>]
    /\ executed' = [executed EXCEPT ![c] = <<>>]
    /\ name' = [name EXCEPT ![c] = <<>>]
    /\ ctl' = [ctl EXCEPT ![c] = "none"]
    /\ err' = [err EXCEPT ![c] = "nil"]
    /\ UNCHANGED <<now, ticks, server, drops, names, gcTime>>

\* Whether the server carries out a DROP DATABASE nm: not when there is no
\* such database, nor when it refuses (sessions connected to it: ok = FALSE).
dropOK(nm, ok) == ok /\ nm \in DBNames

\* A goroutine whose Exec reports its error through f.Fatal.
dropExecFatal(d, ok) ==
    /\ d \in drops /\ d.sent
    /\ drops' = drops \ {d}
    /\ IF dropOK(d.name, ok)
       THEN /\ server' = { r \in server : r.name # d.name }
            /\ UNCHANGED <<pc, err>>
       ELSE /\ Fatal(d.by, "drop")
            /\ UNCHANGED server
    /\ UNCHANGED <<now, ticks, opts, schema, executed, name, names, gcTime, ctl>>

\* A dispatched goroutine starts db.Exec("DROP DATABASE " + name), line 187:
\* Exec first checks whether the *sql.DB is closed.  If it is, Exec returns an
\* error without sending anything and the goroutine ends, its result
\* discarded; if not, the statement goes out to the server.
dropStart(d) ==
    /\ d \in drops /\ ~d.sent
    /\ drops' = IF d.closed THEN drops \ {d}
                ELSE (drops \ {d}) \cup {[d EXCEPT !.sent = TRUE]}
    /\ UNCHANGED <<now, ticks, server, pc, opts, schema, executed, name, names, gcTime,
                   ctl, err>>

\* The server answers a statement that was sent, whether or not mkdb or Open
\* has returned meanwhile: it drops the database or refuses; the goroutine
\* ends and the result is discarded.
dropExec(d, ok) ==
    /\ d \in drops /\ d.sent
    /\ drops' = drops \ {d}
    /\ IF dropOK(d.name, ok)
       THEN server' = { r \in server : r.name # d.name }
       ELSE UNCHANGED server
    /\ UNCHANGED <<now, ticks, pc, opts, schema, executed, name, names, gcTime, ctl, err>>

\* The option lists caller c passes: the first caller any of OptionChoices,
\* the others none.
CallerOptions(c) == IF c = 1 THEN OptionChoices ELSE {<<>>}

\* The steps of caller c's call of Open, with its options among Os.
CallerStep(c, Os) ==
    \/ \E o \in Os : OpenResolve(c, o)
    \/ \E seed \in 0..MaxSeed : mkdbName(c, seed)
    \/ gcTimeRead(c)
    \/ gcQuery(c)
    \/ \E sel \in SUBSET names[c] : garbageCollectDBs(c, sel)
    \/ garbageCollectFail(c)
    \/ \E ok \in BOOLEAN : mkdbCreate(c, ok)
    \/ mkdbClose(c)
    \/ \E ok \in BOOLEAN : OpenExec(c, ok)
    \/ OpenReturn(c)

DropStep ==
    \/ \E d \in drops : dropStart(d)
    \/ \E d \in drops, ok \in BOOLEAN : dropExec(d, ok)

Next ==
    \/ Tick
    \/ \E c \in Callers : CallerStep(c, CallerOptions(c))
    \/ DropStep

\* Concurrent callers, one call each, on a server that holds the user
\* databases, with the clock advancing.
Spec == Init /\ [][Next]_vars

\* One call of Open, with one schema file, on a server that holds up to
\* MaxStale stale databases.
PassInit == \E n \in 0..MaxStale : InitWith(n)

PassNext ==
    \/ CallerStep(1, {<<SchemaFile(<<115, 46, 115, 113, 108>>)>>})
    \/ DropStep

PassSpec == PassInit /\ [][PassNext]_vars

\* One caller that calls Open again and again, with one schema file, on a
\* server that holds one stale database, eligible from the start (the clock
\* stands still).
LiveInit == InitWith(1)

LiveCall == CallerStep(1, {<<SchemaFile(<<115, 46, 115, 113, 108>>)>>})

LiveStep == LiveCall \/ OpenAgain(1)

LiveNext ==
    \/ LiveStep
    \/ DropStep

\* Every call of Open goes on running (the caller's goroutine is scheduled);
\* nothing is assumed of the goroutines of the drops.
CallerFairSpec ==
    /\ LiveInit /\ [][LiveNext]_vars
    /\ WF_vars(LiveCall)

\* The goroutines a pass can have dispatched for the stale database.
StaleDrops ==
    { [name |-> StaleName(1), by |-> 1, db |-> h, closed |-> b, sent |-> s] :
          b \in BOOLEAN, s \in BOOLEAN, h \in 1..(MaxPending + 1) } \
    { [name |-> StaleName(1), by |-> 1, db |-> h, closed |-> TRUE, sent |-> TRUE] :
          h \in 1..(MaxPending + 1) }

\* One caller that calls Open again and again on a server that holds one
\* eligible database more than a pass drops (the user database pqtest1 and
\* lastDropIndex + 1 stale databases).
FairInit == InitWith(lastDropIndex + 1)

\* Every call of Open goes on running, the caller keeps calling Open, and
\* every dispatched goroutine gets to run.
FairSpec ==
    /\ FairInit /\ [][LiveNext]_vars
    /\ WF_vars(LiveStep)
    /\ WF_vars(DropStep)
    /\ \A d \in StaleDrops : /\ WF_vars(dropStart(d))
                             /\ WF_vars(\E ok \in BOOLEAN : dropExec(d, ok))

\* The directories of the file system, each passed as Migrations(dir).
MigrationDirs == { e.path : e \in { x \in FileSystem : x.dir } }

ResolveChoices == { <<Migrations(d)>> : d \in MigrationDirs }

ResolveNext ==
    \/ CallerStep(1, ResolveChoices)
    \/ DropStep

\* One call of Open with one Migrations option, for every directory of the
\* file system.
ResolveSpec == Init /\ [][ResolveNext]_vars

\* Instants at which a name is generated: either side of the turn of a
\* minute, a day, a month (9 to 10), a leap day, a year and a century, the
\* hour 9 to 10, the epoch, and the last second of a 32-bit clock.
Instants ==
    { 0, 946684799, 946684800, 951782399, 951782400, 951868800,
      1136246340, 1136246399, 1136246400, 1254355199, 1254355200,
      1793267999, 1793268000, 2147483647 }

\* Suffixes of names: empty, the collector's "db", bytes above the letters,
\* and a random token with a caller tag.
Suffixes == { <<>>, <<100, 98>>, <<126, 126>>, randomToken(1) \o <<95, 97>> }

\* The server holds one database that formatDBName named at instant t, with
\* some suffix, and the clock reads some instant.
NameInit ==
    \E t0 \in Instants, t \in Instants, sfx \in Suffixes :
        /\ now = t0
        /\ ticks = 0
        /\ drops = {}
        /\ pc = [c \in Callers |-> "idle"]
        /\ opts = [c \in Callers |-> <<>>]
        /\ schema = [c \in Callers |-> <<>>]
        /\ executed = [c \in Callers |-> <<>>]
        /\ name = [c \in Callers |-> <<>>]
        /\ names = [c \in Callers |-> {}]
        /\ gcTime = [c \in Callers |-> 0]
        /\ ctl = [c \in Callers |-> "none"]
        /\ err = [c \in Callers |-> "nil"]
        /\ server = { [name |-> u, born |-> 0, by |-> 0] : u \in UserDBs }
                    \cup { [name |-> formatDBName(sfx, t), born |-> t, by |-> 0] }

NameNext ==
    \/ CallerStep(1, {<<SchemaFile(<<115, 46, 115, 113, 108>>)>>})
    \/ DropStep

\* One call of Open at any of the instants, on a server that holds a
\* database named at any of the instants; the clock stands still.
NameSpec == NameInit /\ [][NameNext]_vars

\* ------------------------------------------------------------------------
\* Properties
\* ------------------------------------------------------------------------

IsPrefix(p, q) == Len(p) <= Len(q) /\ SubSeq(q, 1, Len(p)) = p

\* The step of caller c in which the server answers garbageCollectDBs's
\* query; gcTime[c] is the pass's gcTime, the time at which the pass read
\* the clock less the retention window.
QueryOf(c) == pc[c] = "query" /\ pc'[c] = "rows"

\* The step of caller c in which garbageCollectDBs, having read the answer
\* names[c], dispatches its drops.
PassOf(c) == pc[c] = "rows" /\ pc'[c] = "create"

\* The goroutines a step dispatches.
Dispatched == drops' \ drops

\* The schema texts of one schema source: a file's content, or the contents
\* of a directory's .sql files in the order Migrations finds them.
RECURSIVE Contents(_)
Contents(paths) ==
    IF paths = <<>> THEN <<>> ELSE <<Entry(Head(paths)).text>> \o Contents(Tail(paths))

SourceTexts(opt) ==
    IF opt.kind = "SchemaFile" THEN <<Entry(opt.path).text>>
    ELSE Contents(walkFn(walk(opt.path)))

\* The schema texts of the sources in the order of the options, each
\* source's texts as one block.
RECURSIVE InOptionOrder(_)
InOptionOrder(os) ==
    IF os = <<>> THEN <<>> ELSE SourceTexts(Head(os)) \o InOptionOrder(Tail(os))

\* C1: Open executes the resolved schema texts one at a time in the order
\* the schema sources were supplied through the options, a Migrations
\* directory's files as a block at the position of that option: what has
\* been executed is always a prefix of that order (no text runs before all
\* earlier ones have succeeded), and Open returns only when all have run.
C1_SchemaInOptionOrder ==
    \A c \in Callers :
        pc[c] \in {"opened", "returned"} \/ (pc[c] = "failed" /\ err[c] = "exec")
        => /\ IsPrefix(executed[c], InOptionOrder(opts[c]))
           /\ pc[c] = "returned" => executed[c] = InOptionOrder(opts[c])

\* A call has returned after executing the file s.sql's text and then the
\* two files of directory f, in that order.
C1_Witness ==
    /\ pc[1] = "returned"
    /\ opts[1] = <<Migrations(<<102>>), SchemaFile(<<115, 46, 115, 113, 108>>)>>
    /\ executed[1] = <<"A", "B", "S0">>

\* C2: when executing a schema text fails, Open reports the error through
\* f.Fatal instead of returning a connection, and executes no later schema
\* text: a step of the schema loop that does not execute its text ends the
\* call in failure, with texts left unexecuted, and a failed call executes
\* nothing more and never returns.
C2_ExecFailureStops ==
    [][\A c \in Callers :
        /\ (pc[c] = "opened" /\ Len(executed[c]) < Len(schema[c])
               /\ executed'[c] # Append(executed[c], schema[c][Len(executed[c]) + 1])
               /\ <<pc[c], executed[c]>>' # <<pc[c], executed[c]>>)
           => (pc'[c] = "failed" /\ err'[c] = "exec" /\ executed'[c] = executed[c])
        /\ (pc[c] = "failed" /\ err[c] = "exec")
           => (pc'[c] = "failed" /\ executed'[c] = executed[c]
               /\ Len(executed[c]) < Len(schema[c]))]_vars

\* A call has failed at the invalid text of bad.sql after executing s.sql's,
\* with the texts of directory m left unexecuted.
C2_Witness ==
    /\ pc[1] = "failed" /\ err[1] = "exec"
    /\ schema[1] = <<"S0", "BAD", "A", "X", "S">>
    /\ executed[1] = <<"S0">>

\* C3: a garbage-collection pass dispatches exactly min(k, 6) DROP DATABASE
\* statements when its query returns k eligible databases, so at most 6:
\* the answer is the k names the query selects on the server as it is then,
\* and the pass, when it has read them, starts min(k, 6) goroutines, each
\* its own, for distinct names of the answer (whatever has become of those
\* databases meanwhile).
C3_SixDropsPerPass ==
    [][\A c \in Callers :
        /\ QueryOf(c) => names'[c] = {r.name : r \in Eligible(server, gcTime[c])}
        /\ PassOf(c) =>
            LET k == Cardinality(names[c])
            IN  /\ Cardinality(Dispatched) = IF k < 6 THEN k ELSE 6
                /\ Cardinality({d.name : d \in Dispatched}) = Cardinality(Dispatched)
                /\ \A d \in Dispatched : d.by = c /\ d.name \in names[c]]_vars

\* A pass has just dispatched 6 drops with more than 6 databases eligible.
C3_Witness ==
    /\ pc[1] = "create"
    /\ Cardinality(names[1]) > 6
    /\ Cardinality({d \in drops : d.by = 1}) = 6

\* An ephemeral database name: "pqtest_", 14 digits, "Z_", a suffix.
IsEphemeral(n) ==
    /\ Len(n) > 23
    /\ SubSeq(n, 1, 7) = <<112, 113, 116, 101, 115, 116, 95>>
    /\ \A i \in 8..21 : n[i] \in 48..57
    /\ n[22] = 90 /\ n[23] = 95

\* The number a sequence of digit bytes writes.
RECURSIVE Number(_)
Number(ds) == IF ds = <<>> THEN 0 ELSE 10 * Number(SubSeq(ds, 1, Len(ds) - 1)) + (ds[Len(ds)] - 48)

\* The Unix time of the UTC date and time y-m-d h:mi:s.
UnixTime(y, m, d, h, mi, sec) ==
    LET yy  == IF m <= 2 THEN y - 1 ELSE y
        era == yy \div 400
        yoe == yy - era * 400
        doy == (153 * (IF m > 2 THEN m - 3 ELSE m + 9) + 2) \div 5 + d - 1
        doe == yoe * 365 + yoe \div 4 - yoe \div 100 + doy
    IN  (era * 146097 + doe - 719468) * 86400 + h * 3600 + mi * 60 + sec

\* The time an ephemeral name's timestamp states, and the name's suffix.
EmbeddedTime(n) ==
    UnixTime(Number(SubSeq(n, 8, 11)), Number(SubSeq(n, 12, 13)), Number(SubSeq(n, 14, 15)),
             Number(SubSeq(n, 16, 17)), Number(SubSeq(n, 18, 19)), Number(SubSeq(n, 20, 21)))

Suffix(n) == SubSeq(n, 24, Len(n))

\* C4, as claimed: a pass run at time now (the time at which it reads the
\* clock, gcTime = now - 3 minutes) selects exactly the ephemeral databases
\* whose embedded timestamp is older than now - 3 minutes, and none whose
\* timestamp is equal to or later than that, whatever the suffix.
C4_ExactlyTheOlder ==
    [][\A c \in Callers :
        QueryOf(c) =>
            \A r \in server :
                IsEphemeral(r.name) =>
                    (r.name \in names'[c] <=> EmbeddedTime(r.name) < gcTime[c])]_vars

\* C4, amended: a pass that read the clock at time now selects every
\* ephemeral database (on the server when its query is answered) whose
\* embedded timestamp is older than now - 3 minutes and none whose timestamp
\* is later; one whose timestamp is the very second of now - 3 minutes is
\* selected exactly when its suffix sorts before "db".
C4_OlderAndBoundarySecond ==
    [][\A c \in Callers :
        QueryOf(c) =>
            \A r \in server :
                IsEphemeral(r.name) =>
                    LET ts == EmbeddedTime(r.name)
                    IN  /\ ts < gcTime[c] => r.name \in names'[c]
                        /\ ts > gcTime[c] => r.name \notin names'[c]
                        /\ ts = gcTime[c] =>
                             (r.name \in names'[c] <=> StrLess(Suffix(r.name), <<100, 98>>))]_vars

\* A pass has just selected an ephemeral database whose timestamp is the
\* second of now - 3 minutes (the clock has not moved since the pass read
\* it: a name selected with an earlier gcTime is older than that).
C4_Witness ==
    \E c \in Callers :
        /\ pc[c] = "create"
        /\ \E n \in names[c] : IsEphemeral(n) /\ EmbeddedTime(n) = now - gcDur

\* C5: no DROP DATABASE is dispatched for a database created by Open less
\* than 3 minutes after its creation.
C5_NoDropBeforeRetention ==
    [][\A c \in Callers :
        PassOf(c) =>
            \A d \in Dispatched :
                \A r \in server :
                    (r.name = d.name /\ r.by \in Callers) => now - r.born >= 180]_vars

\* C6: garbage collection runs before CREATE DATABASE in every call, and when
\* its query fails the call reports the error through f.Fatal and issues no
\* CREATE DATABASE, no DROP DATABASE and returns no connection: a call whose
\* collection has not succeeded has created nothing and dispatched nothing,
\* and the only way on from a failed collection is the failure report.
C6_CollectionGatesCreate ==
    [][\A c \in Callers :
        /\ (pc[c] \in {"idle", "mkdb", "gc", "query", "rows"} \/ err[c] = "gc")'
           => (/\ \A r \in server : r.by # c
               /\ \A d \in drops : d.by # c)'
        /\ err[c] = "gc"
           => /\ pc[c] \in {"close", "failed"}
              /\ err'[c] = "gc"
              /\ pc'[c] \in {pc[c], "failed"}
              /\ pc'[c] = "failed" => ctl'[c] = "closed"]_vars

\* A call has failed on its collection's error, its control connection
\* closed, with a database on the server that the query would have selected.
C6_Witness ==
    \E c \in Callers :
        /\ pc[c] = "failed" /\ err[c] = "gc" /\ ctl[c] = "closed"
        /\ Eligible(server, now - gcDur) # {}

\* C7: Open never waits for the drops its pass dispatched: with nothing
\* assumed of the drop goroutines (they may never run), a call that has
\* started its collection reaches its return or its failure report.
C7_OpenNeverWaitsForDrops ==
    (pc[1] \in {"gc", "query", "rows", "create", "close", "opened"})
        ~> (pc[1] \in {"returned", "failed"})

\* Open has returned while a drop it dispatched is still pending.
C7_Witness ==
    /\ pc[1] = "returned"
    /\ \E d \in drops : d.by = 1

\* C8: a drop goroutine's failure is never surfaced and never retried: the
\* step in which a goroutine ends changes no call's position, error or
\* connection, dispatches nothing, and adds nothing to the server; if a
\* database of its name is still on the server afterwards, that database is
\* one a pass run now would select.
C8_DropFailureIsSilent ==
    [][\A d \in drops :
        drops' = drops \ {d}
        => /\ pc' = pc /\ err' = err /\ ctl' = ctl /\ executed' = executed
           /\ server' \subseteq server
           /\ \A r \in server' : r.name = d.name
                                    => r \in Eligible(server', now' - gcDur)]_vars

\* Both calls have returned and every drop goroutine has ended, with the
\* database "pqtest1" still on the server: both passes selected it, both
\* drops failed, and neither call failed.
C8_Witness ==
    /\ \A c \in Callers : pc[c] = "returned" /\ err[c] = "nil"
    /\ drops = {}
    /\ <<112, 113, 116, 101, 115, 116, 49>> \in DBNames

\* C9, as claimed: an ephemeral database that is eligible is eventually
\* dropped, provided calls of Open keep being made.
C9_EventuallyDropped == <>(StaleName(1) \notin DBNames)

\* C9, amended: no eligible database is passed over by a later pass whose
\* query succeeds: the answer to every query holds every ephemeral database
\* on the server that is older than the retention window, those that an
\* earlier pass left out because of the limit included; the pass then
\* dispatches a DROP DATABASE for 6 of them, or for each of them when the
\* answer holds at most 6.  (That a query or a drop ever succeeds is not
\* guaranteed.)
C9_EveryPassSelectsTheOld ==
    [][\A c \in Callers :
        /\ QueryOf(c) =>
              \A r \in server :
                  (IsEphemeral(r.name) /\ EmbeddedTime(r.name) < gcTime[c])
                  => r.name \in names'[c]
        /\ PassOf(c) =>
              /\ Cardinality(names[c]) > 6 => Cardinality(Dispatched) = 6
              /\ Cardinality(names[c]) <= 6 =>
                    \A n \in names[c] :
                        \E d \in Dispatched : /\ d.name = n /\ d.by = c
                                               /\ ~d.closed /\ ~d.sent]_vars

\* A later call's pass has selected all 7 eligible databases again and
\* dispatched drops for 6 of them: the caller's earlier call created a
\* database, so its pass had run on the same 7, left one out because of
\* the limit, and dropped none; the one left out is in the later answer.
C9_Witness ==
    /\ pc[1] = "create"
    /\ \E r \in server : r.by = 1
    /\ Cardinality(names[1]) > 6
    /\ StaleName(1) \in names[1]
    /\ Cardinality({d \in drops : d.by = 1 /\ ~d.closed /\ ~d.sent}) = 6

\* C10, as claimed: no two calls of Open that return a connection return
\* connections to the same database name.
C10_DistinctNames ==
    \A c1, c2 \in Callers :
        (c1 # c2 /\ pc[c1] = "returned" /\ pc[c2] = "returned") => name[c1] # name[c2]

\* The non-directory files below directory d, at any depth, whose names end
\* in ".sql".
SqlFilesUnder(d) ==
    { e.path : e \in { x \in FileSystem : /\ ~x.dir
                                          /\ HasPrefix(x.path, d \o <<47>>)
                                          /\ HasSuffix(x.path, <<46, 115, 113, 108>>) } }

\* The position of text x in the sequence sch.
Pos(sch, x) == CHOOSE i \in 1..Len(sch) : sch[i] = x

\* sch holds the contents of the files S, each once, in the order Less.
ResolvedInOrder(sch, S, Less(_, _)) ==
    /\ Len(sch) = Cardinality(S)
    /\ { sch[i] : i \in 1..Len(sch) } = { Entry(p).text : p \in S }
    /\ \A p, q \in S :
          Less(p, q) => Pos(sch, Entry(p).text) < Pos(sch, Entry(q).text)

\* The calls that have resolved the single option Migrations(d).
ResolvedMigrations(c, d) == pc[c] # "idle" /\ opts[c] = <<Migrations(d)>>

\* C11: for a Migrations directory the resolved schema files are all the
\* non-directory .sql files at any depth, in ascending order of their full
\* path strings (a plain string sort), subdirectories included.
C11_SortedByFullPath ==
    \A c \in Callers : \A d \in MigrationDirs :
        ResolvedMigrations(c, d)
        => /\ err[c] # "resolve"
           /\ ResolvedInOrder(schema[c], SqlFilesUnder(d), StrLess)

\* A directory with no subdirectory.
IsFlat(d) == \A e \in FileSystem : HasPrefix(e.path, d \o <<47>>) => ~e.dir

\* C12: for a flat Migrations directory the files' contents are resolved,
\* and executed, in the byte order of the file names, however the file
\* system enumerates them: 0001_a.sql's content before 0002_b.sql's.
C12_FlatInFilenameOrder ==
    \A c \in Callers : \A d \in MigrationDirs :
        (ResolvedMigrations(c, d) /\ IsFlat(d))
        => /\ \A p, q \in SqlFilesUnder(d) :
                 StrLess(Base(p), Base(q))
                 => /\ Pos(schema[c], Entry(p).text) < Pos(schema[c], Entry(q).text)
                    /\ Entry(q).text \in { executed[c][i] : i \in 1..Len(executed[c]) }
                       => /\ Entry(p).text \in { executed[c][i] : i \in 1..Len(executed[c]) }
                          /\ Pos(executed[c], Entry(p).text) < Pos(executed[c], Entry(q).text)
           /\ d = <<102>> => schema[c] = <<"A", "B">>

\* A call with Migrations("f") has returned after executing 0001_a.sql's
\* content and then 0002_b.sql's.
C12_Witness ==
    /\ ResolvedMigrations(1, <<102>>)
    /\ pc[1] = "returned"
    /\ executed[1] = <<"A", "B">>

\* C13: of two names formatDBName produces at times in different UTC
\* seconds, the earlier one is the smaller string, whatever the suffixes:
\* the name a call generates (at the clock's time) against the name of a
\* database generated at another time.
C13_NameOrderIsTimeOrder ==
    \A c \in Callers : \A r \in server :
        (name[c] # <<>> /\ r.by = 0 /\ r.name \notin UserDBs)
        => /\ r.born < now => StrLess(r.name, name[c])
           /\ now < r.born => StrLess(name[c], r.name)

\* A call at 2000-02-29 00:00:00 has generated its name, with the token
\* "aaaaaaaaaa", while the server holds a database named a second earlier
\* with the suffix "~~", which sorts above every token.
C13_Witness ==
    /\ now = 951782400
    /\ name[1] = <<112, 113, 116, 101, 115, 116, 95,
                   50, 48, 48, 48, 48, 50, 50, 57, 48, 48, 48, 48, 48, 48, 90, 95>>
                  \o randomToken(0) \o <<95, 97>>
    /\ \E r \in server :
          /\ r.born = 951782399
          /\ r.name = <<112, 113, 116, 101, 115, 116, 95,
                        50, 48, 48, 48, 48, 50, 50, 56, 50, 51, 53, 57, 53, 57, 90, 95, 126, 126>>

\* C14: for every database a pass selected (up to the limit) the DROP
\* DATABASE is issued to the server on the control connection, and closing
\* that connection at the end of mkdb never prevents it: a dispatched
\* goroutine ends only after its statement went out to the server.
C14_EveryDropIsIssued ==
    [][\A d \in drops : drops' = drops \ {d} => d.sent]_vars

\* C15: the collector only selects, and only dispatches DROP DATABASE for,
\* databases named pqtest_<14 digits>Z_<suffix>; a user database whose name
\* merely begins with "pqtest" is never selected and never dropped.
C15_OnlyEphemeralSelected ==
    [][\A c \in Callers :
        /\ QueryOf(c) => \A n \in names'[c] : IsEphemeral(n)
        /\ PassOf(c) => \A d \in Dispatched : IsEphemeral(d.name)]_vars

\* C19: one call of garbageCollectDBs dispatches at most five DROP DATABASE
\* statements, however many names its query returned.
C19_AtMostFiveDrops ==
    [][\A c \in Callers : PassOf(c) => Cardinality(Dispatched) <= 5]_vars

\* C16: when CREATE DATABASE fails (for instance on a name that exists) the
\* call reports the error through f.Fatal: it generates no second name and
\* issues no second CREATE DATABASE, executes no schema text and returns no
\* connection.
C16_CreateFailureIsFatal ==
    [][\A c \in Callers :
        /\ (pc[c] = "create" /\ pc'[c] # "create" /\ ~\E r \in server' : r.by = c)
           => (pc'[c] = "close" /\ err'[c] = "create" /\ name'[c] = name[c])
        /\ err[c] = "create"
           => /\ err'[c] = "create"
              /\ pc'[c] \in {pc[c], "failed"} /\ pc[c] \in {"close", "failed"}
              /\ name'[c] = name[c]
              /\ ~\E r \in server' : r.by = c
              /\ executed'[c] = <<>>]_vars

\* A call with schema texts to execute has failed on CREATE DATABASE of a
\* name another call's database holds; it has executed nothing.
C16_Witness ==
    /\ pc[1] = "failed" /\ err[1] = "create"
    /\ schema[1] # <<>> /\ executed[1] = <<>>
    /\ \E r \in server : r.by = 2 /\ r.name = name[1]

\* C17: on every path on which the control connection was opened it is
\* closed before the connection to the new database is opened and before
\* the call returns or reports failure: it is open only inside mkdb.
C17_ControlConnectionClosed ==
    \A c \in Callers :
        /\ ctl[c] = "open" => pc[c] \in {"gc", "query", "rows", "create", "close"}
        /\ pc[c] \in {"opened", "returned"} => ctl[c] = "closed"
        /\ (pc[c] = "failed" /\ err[c] \in {"gc", "create", "exec"}) => ctl[c] = "closed"

\* One call has failed on CREATE DATABASE and another has returned, both
\* with their control connections closed.
C17_Witness ==
    \E c1, c2 \in Callers :
        /\ pc[c1] = "failed" /\ err[c1] = "create" /\ ctl[c1] = "closed"
        /\ pc[c2] = "returned" /\ ctl[c2] = "closed"

\* A schema source that cannot be resolved: a schema file that is missing or
\* is a directory, or a migrations directory that is missing.
FailingSource(opt) ==
    IF opt.kind = "SchemaFile"
    THEN (~\E e \in FileSystem : e.path = opt.path /\ ~e.dir)
    ELSE ~\E e \in FileSystem : e.path = opt.path

\* C18: schema resolution is a gate before any server interaction: when a
\* source cannot be traversed or read, the call reports it through f.Fatal
\* and opens no control connection, runs no collection, dispatches no drop,
\* issues no CREATE DATABASE and executes no schema text, even when earlier
\* sources were read.
C18_ResolutionGatesServer ==
    [][\A c \in Callers :
        /\ (pc[c] = "idle" /\ pc'[c] # "idle"
               /\ \E i \in 1..Len(opts'[c]) : FailingSource(opts'[c][i]))
           => (pc'[c] = "failed" /\ err'[c] = "resolve")
        /\ err'[c] = "resolve"
           => /\ pc'[c] = "failed"
              /\ ctl'[c] = "none" /\ name'[c] = <<>> /\ names'[c] = {}
              /\ executed'[c] = <<>>
              /\ \A d \in drops' : d.by # c
              /\ \A r \in server' : r.by # c]_vars

\* A call has failed on the missing file nope.sql after s.sql was read,
\* with a database on the server that a collection would have selected.
C18_Witness ==
    /\ pc[1] = "failed" /\ err[1] = "resolve"
    /\ opts[1] = <<SchemaFile(<<115, 46, 115, 113, 108>>),
                   SchemaFile(<<110, 111, 112, 101, 46, 115, 113, 108>>)>>
    /\ ctl[1] = "none"
    /\ Eligible(server, now - gcDur) # {}

====
